---------------------------- MODULE Spec2Model ----------------------------
(***************************************************************************)
(* Model of the GlassBox /api/check request handler and of the pure        *)
(* functions it is built from: the SPL mint decoder, the holder            *)
(* distribution computation, the liquidity-pool detection, the liquidity   *)
(* truth index and the risk model.                                         *)
(*                                                                         *)
(* The repository keeps several revisions of api/check.js side by side.    *)
(* The variable impl names the revision that serves the request; every     *)
(* operator that differs between revisions takes impl as a parameter and   *)
(* is translated from that revision's source.                              *)
(*                                                                         *)
(* Representation of numbers:                                              *)
(*  - BigInt values (supply) are little-endian sequences of base-256       *)
(*    limbs, because they range over 0 .. 2^64-1;                          *)
(*  - decimal strings are sequences of digits, most significant first;     *)
(*  - a percentage is kept in basis points (pct * 100), the integer that   *)
(*    Number((amountBN * 10_000n) / supplyBN) holds before the / 100.      *)
(***************************************************************************)
EXTENDS Integers, Sequences, FiniteSets, TLC

VARIABLES
    impl,          \* revision of the handler that serves the request
    pc,            \* position of the handler
    mint,          \* input: the mint address of the request, "" when blank
    method,        \* input: the method of the request
    apiKey,        \* input: whether HELIUS_API_KEY is set
    accountFound,  \* input: whether the mint-account lookup reports a value
    flaky,         \* input: the upstream reads that fail for this request
    reads,         \* state of each upstream read the handler issued
    attempts,      \* network calls started for each upstream read
    sent,          \* response bodies sent
    mintData,      \* bytes of accountInfo.value.data[0] (after base64)
    largest,       \* largest.value, the entries [address, amount, uiAmount]
    dexStats,      \* the DEX metrics
    parsedMint,    \* result of parseMintAccount
    allHolders,    \* the holder records built from largest
    lpHolder,      \* the holder taken for the liquidity pool, or NoHolder
    nonLpHolders,  \* the holders left after removing the LP holder
    top10PctExcludingLP, \* share of the ten largest non-LP holders, or Null
    sampleCluster, \* insiderClusters.sampleCluster, or NoCluster
    insiderSummary,\* the insider snapshot, or NoInsiders
    riskSummary,   \* [level, score] of the risk model, or NoRisk
    riskBlurb,     \* riskSummary.blurb
    liquidityTruth,\* the liquidity truth index
    response       \* the response sent: [status, kind, error]

\* the inputs of the request, which no step changes
inputVars == <<impl, mint, method, apiKey, accountFound, flaky, mintData>>

\* what the reads returned
fetchedVars == <<largest, dexStats>>

\* what the handler computes
derivedVars == <<parsedMint, allHolders, lpHolder, nonLpHolders,
                 top10PctExcludingLP, sampleCluster, insiderSummary,
                 riskSummary, riskBlurb, liquidityTruth>>

vars == <<inputVars, fetchedVars, derivedVars, pc, reads, attempts, sent,
          response>>

\* null / undefined of a number-valued field; the numbers of the model are
\* never negative
Null == 0 - 1

\* null of a holder reference (idx 0 is no holder object)
NoHolder == [address |-> 0, pct |-> 0, uiAmount |-> 0, idx |-> 0]

\* parsedMint before parseMintAccount ran
NoMint == [ok |-> FALSE, error |-> "not parsed"]

NoResponse == [status |-> 0, kind |-> "none", error |-> "none"]

\* riskSummary before the risk model ran
NoRisk == [level |-> "none", score |-> 0 - 1]

\* insiderClusters.sampleCluster when it is null or not computed
NoCluster == [leader |-> 0, pctOfSupply |-> 0]

-----------------------------------------------------------------------------
(* Program constants *)

MINT_LEN == 82            \* length check of part_003
OFF_MINT_AUTH == 0
OFF_SUPPLY == 36
OFF_DECIMALS == 44
OFF_FREEZE == 46
OFF_FREEZE_P003 == 48     \* part_003 reads the freeze option here

-----------------------------------------------------------------------------
(* Revisions *)

DataViewImpls == {"part_004", "part_010", "part_005", "part_006", "check_v1", "check_v4"}
Impls == DataViewImpls \cup {"part_003", "part_007"}

-----------------------------------------------------------------------------
(* Arbitrary-precision helpers: little-endian base-256 limbs *)

Limb == 0..255

IsZeroBig(x) == \A i \in 1..Len(x) : x[i] = 0

\* x \div d and x % d for a small positive d, by long division from the
\* most significant limb
RECURSIVE DivSmallFrom(_, _, _, _)
DivSmallFrom(x, d, i, rem) ==
    IF i = 0 THEN [q |-> x, r |-> rem]
    ELSE LET cur == rem * 256 + x[i]
         IN  DivSmallFrom([x EXCEPT ![i] = cur \div d], d, i - 1, cur % d)

DivSmall(x, d) == DivSmallFrom(x, d, Len(x), 0)

\* x * m + a for small m, a; the result keeps Len(x) limbs (the callers
\* never exceed them)
RECURSIVE MulAddFrom(_, _, _, _)
MulAddFrom(x, m, i, carry) ==
    IF i > Len(x) THEN x
    ELSE LET cur == x[i] * m + carry
         IN  MulAddFrom([x EXCEPT ![i] = cur % 256], m, i + 1, cur \div 256)

MulAdd(x, m, a) == MulAddFrom(x, m, 1, a)

\* BigInt.prototype.toString(): decimal digits, no leading zero
RECURSIVE DigitsOf(_)
DigitsOf(x) ==
    IF IsZeroBig(x) THEN << >>
    ELSE LET dm == DivSmall(x, 10) IN Append(DigitsOf(dm.q), dm.r)

BigToString(x) == IF IsZeroBig(x) THEN <<0>> ELSE DigitsOf(x)

\* BigInt(decimalString) for a value below 2^64
RECURSIVE BigFromDigits(_, _, _)
BigFromDigits(s, i, acc) ==
    IF i > Len(s) THEN acc
    ELSE BigFromDigits(s, i + 1, MulAdd(acc, 10, s[i]))

BigIntOfString(s) == BigFromDigits(s, 1, [i \in 1..8 |-> 0])

-----------------------------------------------------------------------------
(* Byte buffer accessors *)

ByteAt(bytes, off) == bytes[off + 1]

\* DataView.getUint32(off, true) / Buffer.readUInt32LE(off): in bounds?
InBounds(bytes, off, width) == off + width <= Len(bytes)

\* the little-endian u32 at off, as limbs
U32LE(bytes, off) == [i \in 1..4 |-> ByteAt(bytes, off + i - 1)]

\* the two halves taken in the other order
CombineHalvesSwapped(low, high) == high \o low

\* BigInt(low) + (BigInt(high) << 32n): the limbs of low followed by the
\* limbs of high
CombineHalves(low, high) == low \o high

-----------------------------------------------------------------------------
(* parseMintAccount, per revision *)

MintRecord(bytes, freezeOff) ==
    [ok |-> TRUE,
     supply |-> BigToString(CombineHalves(U32LE(bytes, OFF_SUPPLY),
                                          U32LE(bytes, OFF_SUPPLY + 4))),
     decimals |-> ByteAt(bytes, OFF_DECIMALS),
     hasMintAuthority |-> ~IsZeroBig(U32LE(bytes, OFF_MINT_AUTH)),
     hasFreezeAuthority |-> ~IsZeroBig(U32LE(bytes, freezeOff))]

ParseError(msg) == [ok |-> FALSE, error |-> msg]

\* DataView revision: every view.getUint32 throws a RangeError when it
\* reads past the end; raw[offset] does not throw
ParseDataView(bytes) ==
    IF /\ InBounds(bytes, OFF_MINT_AUTH, 4)
       /\ InBounds(bytes, OFF_SUPPLY, 4)
       /\ InBounds(bytes, OFF_SUPPLY + 4, 4)
       /\ InBounds(bytes, OFF_FREEZE, 4)
    THEN MintRecord(bytes, OFF_FREEZE)
    ELSE ParseError("RangeError")

\* part_003: explicit checks, Buffer reads, freeze option read at 48
ParseChecked(bytes) ==
    IF Len(bytes) = 0 THEN ParseError("Missing mint account data")
    ELSE IF Len(bytes) < MINT_LEN THEN ParseError("Mint account data too short")
    ELSE MintRecord(bytes, OFF_FREEZE_P003)

\* part_007: Buffer reads inside try/catch; any throw gives null
ParseTry(bytes) ==
    IF /\ InBounds(bytes, OFF_SUPPLY, 8)
       /\ InBounds(bytes, OFF_MINT_AUTH, 4)
       /\ InBounds(bytes, OFF_FREEZE, 4)
    THEN MintRecord(bytes, OFF_FREEZE)
    ELSE ParseError("null")

\* part_001: the option word that marks an authority as present
OPTION_SOME == 1

\* part_001: raw[i] past the end is undefined, which the bit operators of
\* readU32 take for 0
ByteOrZero(bytes, off) == IF off < Len(bytes) THEN ByteAt(bytes, off) ELSE 0

\* part_001: readU32(bytes, offset), the four bytes shifted and or-ed
readU32(bytes, off) == [i \in 1..4 |-> ByteOrZero(bytes, off + i - 1)]

\* part_001: readU64LE(bytes, offset) = lo + (hi << 32n)
readU64LE(bytes, off) == CombineHalves(readU32(bytes, off), readU32(bytes, off + 4))

\* part_001: the byte-shift decoder of the handler; an authority is set
\* only when its option word is exactly 1, and nothing is thrown
ParseByteShift(bytes) ==
    [ok |-> TRUE,
     supply |-> BigToString(readU64LE(bytes, OFF_SUPPLY)),
     decimals |-> ByteOrZero(bytes, OFF_DECIMALS),
     hasMintAuthority |-> readU32(bytes, OFF_MINT_AUTH) = <<OPTION_SOME, 0, 0, 0>>,
     hasFreezeAuthority |-> readU32(bytes, OFF_FREEZE) = <<OPTION_SOME, 0, 0, 0>>]

parseMintAccount(im, bytes) ==
    CASE im = "part_003" -> ParseChecked(bytes)
      [] im = "part_007" -> ParseTry(bytes)
      [] OTHER -> ParseDataView(bytes)

-----------------------------------------------------------------------------
(* Holder distribution *)

TOP_N == 10               \* slice(0, 10)
SAMPLE_N == 20            \* part_007: largest.slice(0, 20)

\* 2^24: a BigInt below it is held as an integer of the model
SmallLimit == 256 * 256 * 256

FitsSmall(x) == \A i \in 4..Len(x) : x[i] = 0
SmallInt(x) == x[1] + 256 * x[2] + 65536 * x[3]

OneBig == [i \in 1..8 |-> IF i = 1 THEN 1 ELSE 0]
ZeroBig == [i \in 1..8 |-> 0]

\* supplyBN, per revision; supplyStr is parsedMint.supply (never empty)
supplyBN(im, supplyStr) ==
    CASE im \in {"check_v1", "part_006"} ->
            \* BigInt(supply || "0") === 0n ? 1n : BigInt(supply || "0")
            IF IsZeroBig(BigIntOfString(supplyStr)) THEN OneBig
            ELSE BigIntOfString(supplyStr)
      [] im \in {"part_004", "check_v4"} ->
            \* rawSupply && rawSupply !== "0" ? BigInt(rawSupply) : 0n
            IF supplyStr # <<0>> THEN BigIntOfString(supplyStr) ELSE ZeroBig
      [] OTHER -> BigIntOfString(supplyStr)

\* the quotient rounded to the nearest basis point
FloorBpRounded(amount, sup) ==
    IF FitsSmall(sup) THEN (amount * 10000 + SmallInt(sup) \div 2) \div SmallInt(sup) ELSE 0

\* the quotient of amount * 100_000
FloorBpScaled(amount, sup) ==
    IF FitsSmall(sup) THEN (amount * 100000) \div SmallInt(sup) ELSE 0

\* Number((amountBN * 10_000n) / supplyBN): floor division of BigInts.
\* amount * 10000 stays below SmallLimit in every state of the model, so the
\* quotient by a supply of SmallLimit or more is 0.
FloorBp(amount, sup) ==
    IF FitsSmall(sup) THEN (amount * 10000) \div SmallInt(sup) ELSE 0

\* pct of one entry, in basis points
pctOf(im, amount, sup) ==
    IF im \in {"check_v1", "part_006", "part_007"}
    THEN FloorBp(amount, sup)             \* no supplyBN > 0n test
    ELSE IF ~IsZeroBig(sup) THEN FloorBp(amount, sup) ELSE 0

\* uiAmount of a holder record, per revision
uiAmountOf(im, ui) ==
    CASE im \in {"part_004", "part_003", "part_010", "part_005"} ->
            \* typeof ui === "number" ? ui : Number(ui ?? 0)
            IF ui = Null THEN 0 ELSE ui
      [] OTHER -> ui                      \* entry.uiAmount as reported

Take(s, n) == SubSeq(s, 1, IF Len(s) < n THEN Len(s) ELSE n)

\* largestAccounts.map(...): idx is the identity of the holder object
mapHolders(im, entries, sup) ==
    LET src == IF im \in {"part_006", "check_v4"} THEN Take(entries, TOP_N)
               ELSE IF im = "part_007" THEN Take(entries, SAMPLE_N)
               ELSE entries
    IN  [i \in 1..Len(src) |->
            [address |-> src[i].address,
             pct |-> pctOf(im, src[i].amount, sup),
             uiAmount |-> uiAmountOf(im, src[i].uiAmount),
             idx |-> i]]

-----------------------------------------------------------------------------
(* Sorting: Array.prototype.sort is stable *)

UiOrZero(h) == IF h.uiAmount = Null THEN 0 ELSE h.uiAmount  \* (h.uiAmount || 0)

SortKey(h, by) == IF by = "pct" THEN h.pct ELSE UiOrZero(h)

\* insert x after every element whose key is >= its own
RECURSIVE InsertDesc(_, _, _)
InsertDesc(s, x, by) ==
    IF s = << >> THEN <<x>>
    ELSE IF SortKey(Head(s), by) >= SortKey(x, by)
         THEN <<Head(s)>> \o InsertDesc(Tail(s), x, by)
         ELSE <<x>> \o s

RECURSIVE SortFrom(_, _, _, _)
SortFrom(s, i, acc, by) ==
    IF i > Len(s) THEN acc
    ELSE SortFrom(s, i + 1, InsertDesc(acc, s[i], by), by)

sortDesc(s, by) == SortFrom(s, 1, << >>, by)

-----------------------------------------------------------------------------
(* Liquidity-pool detection *)

TOL_P004 == 20            \* relDiff < 0.2
TOL_P010 == 4             \* relDiff < 0.04
TOL_P005 == 2             \* bestRatio <= 0.02
LP_MIN_PCT == 4000        \* pct >= 40, in basis points
LP_MIN_PCT_P007 == 100    \* h.pct < 1 is skipped

Abs(x) == IF x < 0 THEN -x ELSE x

ReservePresent(r) == r # Null /\ r > 0

\* the loop "if (rel < tol && rel < best) { best = rel; lp = h }" over hs in
\* order; i is the next position, best the position held so far (0: none).
\* rel = |ui - r| / r is compared through |ui - r| (r is the same positive
\* number on both sides) and rel < tol/100 through 100 * |ui - r| < tol * r.
RECURSIVE MatchFrom(_, _, _, _, _)
MatchFrom(hs, r, tol, i, best) ==
    IF i > Len(hs) THEN best
    ELSE LET h == hs[i]
             d == Abs(h.uiAmount - r)
             ok == /\ 100 * d < tol * r
                   /\ (best = 0 \/ d < Abs(hs[best].uiAmount - r))
         IN  IF h.uiAmount = Null \/ h.uiAmount <= 0 THEN MatchFrom(hs, r, tol, i + 1, best)
             ELSE MatchFrom(hs, r, tol, i + 1, IF ok THEN i ELSE best)

matchReserve(hs, r, tol) == MatchFrom(hs, r, tol, 1, 0)

\* part_005: the closest holder overall, accepted when within 2%
RECURSIVE ClosestFrom(_, _, _, _)
ClosestFrom(hs, r, i, best) ==
    IF i > Len(hs) THEN best
    ELSE LET h == hs[i]
             d == Abs(h.uiAmount - r)
         IN  IF h.uiAmount <= 0 THEN ClosestFrom(hs, r, i + 1, best)
             ELSE ClosestFrom(hs, r, i + 1,
                     IF best = 0 \/ d < Abs(hs[best].uiAmount - r) THEN i ELSE best)

matchReserveP005(hs, r) ==
    LET b == ClosestFrom(hs, r, 1, 0)
    IN  IF b > 0 /\ 100 * Abs(hs[b].uiAmount - r) <= TOL_P005 * r THEN b ELSE 0

\* part_003: allHolders.reduce((a, b) => a.uiAmount >= b.uiAmount ? a : b)
RECURSIVE MaxUiFrom(_, _, _)
MaxUiFrom(hs, i, best) ==
    IF i > Len(hs) THEN best
    ELSE MaxUiFrom(hs, i + 1,
            IF UiOrZero(hs[best]) >= UiOrZero(hs[i]) THEN best ELSE i)

\* Addresses are numbered; address 3 stands for one containing "amm" or
\* "pool", and for a token account whose owner wallet is owned by a program
PoolLikeAddresses == {3}
ProgramOwnedAddresses == {3}

\* first position of hs satisfying P, or 0
RECURSIVE FirstPoolLike(_, _)
FirstPoolLike(hs, i) ==
    IF i > Len(hs) THEN 0
    ELSE IF hs[i].address \in PoolLikeAddresses \/ hs[i].pct > LP_MIN_PCT THEN i
    ELSE FirstPoolLike(hs, i + 1)

\* part_007: largest program-owned holder with pct >= 1%
RECURSIVE LargestProgramOwned(_, _, _)
LargestProgramOwned(hs, i, best) ==
    IF i > Len(hs) THEN best
    ELSE IF hs[i].address \notin ProgramOwnedAddresses \/ hs[i].pct < LP_MIN_PCT_P007
         THEN LargestProgramOwned(hs, i + 1, best)
         ELSE LargestProgramOwned(hs, i + 1,
                 IF best = 0 \/ hs[i].pct > hs[best].pct THEN i ELSE best)

At(hs, i) == IF i = 0 THEN NoHolder ELSE hs[i]

\* The holder stage of a revision, from the mapped holders to the sorted
\* list and the LP holder: [all |-> allHolders, lp |-> lpHolder or NoHolder].
\* The order of detection, sort and fallback is the revision's.
identifyLP(im, hs, reserve) ==
    CASE im = "part_004" ->
            \* detection inside the map (input order), then sort by uiAmount,
            \* then the dominance fallback on the first holder
            LET m == IF ReservePresent(reserve) THEN matchReserve(hs, reserve, TOL_P004) ELSE 0
                sorted == sortDesc(hs, "ui")
            IN  [all |-> sorted,
                 lp |-> IF m # 0 THEN hs[m]
                        ELSE IF Len(sorted) > 0 /\ sorted[1].pct >= LP_MIN_PCT THEN sorted[1]
                        ELSE NoHolder]
      [] im = "part_003" ->
            \* detection, then the largest holder by uiAmount, then sort by pct
            LET m == IF ReservePresent(reserve) THEN matchReserve(hs, reserve, TOL_P004) ELSE 0
            IN  [all |-> sortDesc(hs, "pct"),
                 lp |-> IF m # 0 THEN hs[m]
                        ELSE IF Len(hs) > 0 THEN hs[MaxUiFrom(hs, 1, 1)]
                        ELSE NoHolder]
      [] im = "part_010" ->
            \* sort by pct, then detection within 4%; no fallback
            LET sorted == sortDesc(hs, "pct")
                m == IF ReservePresent(reserve) THEN matchReserve(sorted, reserve, TOL_P010) ELSE 0
            IN  [all |-> sorted, lp |-> At(sorted, m)]
      [] im = "part_005" ->
            \* no sort; closest holder within 2%
            [all |-> hs,
             lp |-> IF ReservePresent(reserve) /\ Len(hs) > 0
                    THEN At(hs, matchReserveP005(hs, reserve)) ELSE NoHolder]
      [] im = "check_v1" ->
            \* no sort; the first holder when it has >= 40%
            [all |-> hs,
             lp |-> IF Len(hs) > 0 /\ hs[1].pct >= LP_MIN_PCT THEN hs[1] ELSE NoHolder]
      [] im = "check_v4" ->
            [all |-> hs, lp |-> At(hs, FirstPoolLike(hs, 1))]
      [] im = "part_007" ->
            [all |-> hs, lp |-> At(hs, LargestProgramOwned(hs, 1, 0))]
      [] OTHER -> [all |-> hs, lp |-> NoHolder] \* part_006: no LP detection

\* filter of a sequence
RECURSIVE SelectIdx(_, _, _)
SelectIdx(hs, keep, i) ==
    IF i > Len(hs) THEN << >>
    ELSE (IF i \in keep THEN <<hs[i]>> ELSE << >>) \o SelectIdx(hs, keep, i + 1)

\* nonLpHolders
nonLpByEntry(im, hs, lp) ==
    IF lp = NoHolder THEN hs
    ELSE SelectIdx(hs, {i \in 1..Len(hs) : hs[i].idx # lp.idx}, 1)

nonLpOf(im, hs, lp) ==
    IF lp = NoHolder THEN hs
    ELSE IF im \in {"part_005", "check_v1"}
         THEN \* filter on the isLp / isLiquidity flag of the entry itself
              SelectIdx(hs, {i \in 1..Len(hs) : hs[i].idx # lp.idx}, 1)
         ELSE \* filter((h) => h.address !== lpHolder.address)
              SelectIdx(hs, {i \in 1..Len(hs) : hs[i].address # lp.address}, 1)

-----------------------------------------------------------------------------
(* Liquidity truth index *)

RATIO_HIGH == 100         \* tradeToLiquidity > 100
RATIO_MEDIUM == 30        \* tradeToLiquidity > 30
TX_HIGH == 50             \* txCount24 < 50
TX_MEDIUM == 150          \* txCount24 < 150
V4_NEW_HOURS == 6         \* ageDays < 0.25
V4_NEW_RATIO == 20        \* tradeToLiquidity > 20, and <= 20
V4_THIN_TRADES == 20      \* trades24h < 20
V4_RATIO_HIGH == 40       \* tradeToLiquidity > 40

Present(x) == x # Null /\ x > 0

\* a quotient num / den of two numbers, kept as the pair; NoRatio is null
NoRatio == [num |-> 0, den |-> 0]
Ratio(n, d) == [num |-> n, den |-> d]

Truth(level, ttl, avg) == [level |-> level, tradeToLiquidity |-> ttl, avgTradeUsd |-> avg]

\* part_004 and part_003: the inline classification; unknownLevel is the
\* value level starts with ("unknown" in part_004, null in part_003).
\* vol / liq > k is compared as vol > k * liq (liq > 0).
classify(liq, vol, tx, unknownLevel) ==
    IF Present(liq) /\ Present(vol) /\ Present(tx)
    THEN Truth(IF vol > RATIO_HIGH * liq /\ tx < TX_HIGH THEN "high"
               ELSE IF vol > RATIO_MEDIUM * liq /\ tx < TX_MEDIUM THEN "medium"
               ELSE "low",
               Ratio(vol, liq), Ratio(vol, tx))
    ELSE Truth(unknownLevel, NoRatio, NoRatio)

\* check.js, last revision: buildLiquidityTruth(dexStats); the age is kept
\* in hours
buildLiquidityTruth(liq, vol, trades, ageHours) ==
    IF liq = Null \/ vol = Null \/ liq <= 0 \/ vol < 0
    THEN Truth("unknown", NoRatio, NoRatio)
    ELSE LET thin == trades # Null /\ trades < V4_THIN_TRADES
             level ==
                IF ageHours # Null /\ ageHours < V4_NEW_HOURS
                THEN (IF vol > V4_NEW_RATIO * liq \/ thin THEN "high" ELSE "medium")
                ELSE IF vol > V4_RATIO_HIGH * liq THEN "high"
                ELSE IF vol < liq /\ thin THEN "high"
                ELSE IF vol <= V4_NEW_RATIO * liq THEN "low"
                ELSE "medium"
         IN  Truth(level, Ratio(vol, liq), NoRatio)

liquidityTruthOf(im, d) ==
    CASE im = "part_004" -> classify(d.liquidityUsd, d.volume24Usd, d.txCount24, "unknown")
      [] im = "part_003" -> classify(d.liquidityUsd, d.volume24Usd, d.txCount24, "null")
      [] OTHER -> buildLiquidityTruth(d.liquidityUsd, d.volume24Usd, d.txCount24, d.ageHours)

NoTruth == Truth("none", NoRatio, NoRatio)

-----------------------------------------------------------------------------
(* Holder summary, insiders and the risk model *)

\* hs.reduce((sum, h) => sum + (h.pct || 0), 0), in basis points. The sum is
\* exact here; the code adds doubles, whose sum can differ from it in the
\* last binary place.
RECURSIVE SumPctFrom(_, _)
SumPctFrom(hs, i) == IF i > Len(hs) THEN 0 ELSE hs[i].pct + SumPctFrom(hs, i + 1)
SumPct(hs) == SumPctFrom(hs, 1)

\* rawSupply && rawSupply !== "0"
NonZeroSupply(m) == m.ok /\ m.supply # <<0>>

\* the concentration figure the risk model of the revision reads: the sum of
\* the percentages of the ten largest holders without the LP holder, or
\* null (part_006 has no LP holder and sums the ten largest holders)
top10PctExcludingLPOf(im, m, all, nonLp, lp) ==
    LET top == Take(nonLp, TOP_N)
        top10Pct == IF Len(all) > 0 /\ NonZeroSupply(m) THEN SumPct(all) ELSE Null
    IN  CASE im \in {"part_004", "part_010"} ->
               IF Len(top) > 0 /\ NonZeroSupply(m) THEN SumPct(top) ELSE Null
          [] im = "check_v4" ->
               IF lp # NoHolder THEN SumPct(nonLp) ELSE top10Pct
          [] im = "part_007" -> IF all = << >> THEN Null ELSE SumPct(top)
          [] im = "part_006" -> SumPct(all)
          [] OTHER -> SumPct(top)

\* wallets holding at least 1% count as insiders
INSIDER_PCT == 100

RECURSIVE FirstInsider(_, _)
FirstInsider(hs, i) ==
    IF i > Len(hs) THEN NoHolder
    ELSE IF hs[i].pct >= INSIDER_PCT THEN hs[i]
    ELSE FirstInsider(hs, i + 1)

\* part_003: insiderClusters.sampleCluster, built from
\* largestInsider = insidersAll[0] || null
sampleClusterOf(nonLp) ==
    LET largestInsider == FirstInsider(nonLp, 1)
    IN  IF largestInsider = NoHolder THEN NoCluster
        ELSE [leader |-> largestInsider.address, pctOfSupply |-> largestInsider.pct]

\* wallets holding at least 5% count as whales
WHALE_PCT == 500

\* thresholds of the insider tier, in basis points
P010_HIGH_LARGEST == 2000
P010_HIGH_TOTAL == 5000
P010_MEDIUM_LARGEST == 1000
P010_MEDIUM_TOTAL == 3500
P004_MEDIUM_TOTAL == 2000
P004_MEDIUM_WHALES == 1
P003_HIGH_TOTAL == 6000
P003_HIGH_WHALES == 3
P003_MEDIUM_TOTAL == 3500
P003_MEDIUM_WHALES == 1

\* nonLpHolders.filter((h) => (h.pct || 0) >= threshold)
AtLeast(hs, threshold) == SelectSeq(hs, LAMBDA h : h.pct >= threshold)

\* the first element of the list sorted by pct, largest first
RECURSIVE MaxPctFrom(_, _)
MaxPctFrom(hs, i) ==
    IF i > Len(hs) THEN 0
    ELSE LET rest == MaxPctFrom(hs, i + 1)
         IN  IF hs[i].pct >= rest THEN hs[i].pct ELSE rest

Insiders(all, whales, total, largestPct, level) ==
    [insidersAll |-> all, whales |-> whales, insidersTotalPct |-> total,
     largestPct |-> largestPct, insiderRiskLevel |-> level]

NoInsiders == Insiders(<< >>, << >>, 0, 0, "none")

\* part_010: the wallets of at least 1% are the whales of this revision;
\* whalesTotalPct and largestWhalePct are null when there is none
insiderSummaryP010(nonLp) ==
    LET insiderWhales == AtLeast(nonLp, INSIDER_PCT)
        whalesTotalPct == SumPct(insiderWhales)
        largestWhalePct == MaxPctFrom(insiderWhales, 1)
        level ==
           IF Len(insiderWhales) = 0 THEN "low"
           ELSE IF largestWhalePct >= P010_HIGH_LARGEST
                   \/ whalesTotalPct >= P010_HIGH_TOTAL THEN "high"
           ELSE IF largestWhalePct >= P010_MEDIUM_LARGEST
                   \/ whalesTotalPct >= P010_MEDIUM_TOTAL THEN "medium"
           ELSE "low"
    IN  Insiders(insiderWhales, insiderWhales, whalesTotalPct, largestWhalePct, level)

\* part_004: any insider makes the tier at least medium
insiderSummaryP004(nonLp) ==
    LET insidersAll == AtLeast(nonLp, INSIDER_PCT)
        whales == AtLeast(nonLp, WHALE_PCT)
        insidersTotalPct == SumPct(insidersAll)
        level ==
           IF Len(insidersAll) = 0 THEN "low"
           ELSE IF insidersTotalPct <= P004_MEDIUM_TOTAL
                   /\ Len(whales) <= P004_MEDIUM_WHALES THEN "medium"
           ELSE "high"
    IN  Insiders(insidersAll, whales, insidersTotalPct,
                 FirstInsider(nonLp, 1).pct, level)

\* part_003
insiderSummaryP003(nonLp) ==
    LET insidersAll == AtLeast(nonLp, INSIDER_PCT)
        whales == AtLeast(nonLp, WHALE_PCT)
        insidersTotalPct == SumPct(insidersAll)
        level ==
           IF insidersTotalPct > P003_HIGH_TOTAL
              \/ Len(whales) >= P003_HIGH_WHALES THEN "high"
           ELSE IF insidersTotalPct > P003_MEDIUM_TOTAL
                   \/ Len(whales) >= P003_MEDIUM_WHALES THEN "medium"
           ELSE "low"
    IN  Insiders(insidersAll, whales, insidersTotalPct,
                 FirstInsider(nonLp, 1).pct, level)

\* the insider snapshot of the revision, NoInsiders where it has none
insiderSummaryOf(im, nonLp) ==
    CASE im = "part_010" -> insiderSummaryP010(nonLp)
      [] im = "part_004" -> insiderSummaryP004(nonLp)
      [] im = "part_003" -> insiderSummaryP003(nonLp)
      [] OTHER -> NoInsiders

Risk(level, score) == [level |-> level, score |-> score]

RISK_LOW_PCT == 2500
RISK_LOW_PCT_P003 == 3500
RISK_LOW_PCT_P007 == 3000
RISK_HIGH_PCT == 6000
SCORE_LOW == 90
SCORE_MEDIUM == 65
SCORE_HIGH == 25
SCORE_DEFAULT_P007 == 55
SCORE_UNKNOWN_P007 == 50

\* the three-tier risk model; t is the concentration excluding the LP, or
\* Null where the revision can hold null
riskModel(hasMint, hasFreeze, t, lowPct) ==
    IF ~hasMint /\ ~hasFreeze /\ t # Null /\ t <= lowPct
    THEN Risk("low", SCORE_LOW)
    ELSE IF ~hasMint /\ (t = Null \/ t <= RISK_HIGH_PCT)
    THEN Risk("medium", SCORE_MEDIUM)
    ELSE Risk("high", SCORE_HIGH)

\* part_007: buildRiskSummary(mintInfo, holderSummary)
buildRiskSummary(m, t) ==
    IF ~m.ok THEN Risk("unknown", SCORE_UNKNOWN_P007)
    ELSE IF ~m.hasMintAuthority /\ ~m.hasFreezeAuthority /\ t # Null
            /\ t < RISK_LOW_PCT_P007
    THEN Risk("low", SCORE_LOW)
    ELSE IF m.hasMintAuthority \/ m.hasFreezeAuthority
            \/ (t # Null /\ t > RISK_HIGH_PCT)
    THEN Risk("high", SCORE_HIGH)
    ELSE Risk("medium", SCORE_DEFAULT_P007)

SCAM_BASE == 90
SCAM_MINT_PENALTY == 25
SCAM_FREEZE_PENALTY == 15
SCAM_PCT_3 == 7000
SCAM_PCT_2 == 5000
SCAM_PCT_1 == 3500
SCAM_PENALTY_3 == 25
SCAM_PENALTY_2 == 15
SCAM_PENALTY_1 == 8
SCAM_THIN_LIQUIDITY == 5000
SCAM_LIQUIDITY_PENALTY == 10
SCAM_NEW_HOURS == 24
SCAM_NEW_PENALTY == 10
SCAM_OLD_HOURS == 2160
SCAM_OLD_BELOW == 40
SCAM_OLD_BONUS == 10

Clamp100(x) == IF x < 0 THEN 0 ELSE IF x > 100 THEN 100 ELSE x

\* part_010: the subtractive scam score; the age is kept in hours
scamScore(hasMint, hasFreeze, t, liq, ageHours) ==
    LET s1 == SCAM_BASE - (IF hasMint THEN SCAM_MINT_PENALTY ELSE 0)
        s2 == s1 - (IF hasFreeze THEN SCAM_FREEZE_PENALTY ELSE 0)
        s3 == s2 - (IF t = Null THEN 0
                    ELSE IF t > SCAM_PCT_3 THEN SCAM_PENALTY_3
                    ELSE IF t > SCAM_PCT_2 THEN SCAM_PENALTY_2
                    ELSE IF t > SCAM_PCT_1 THEN SCAM_PENALTY_1
                    ELSE 0)
        s4 == s3 - (IF liq # Null /\ liq < SCAM_THIN_LIQUIDITY
                    THEN SCAM_LIQUIDITY_PENALTY ELSE 0)
        s5 == s4 - (IF ageHours # Null /\ ageHours < SCAM_NEW_HOURS
                    THEN SCAM_NEW_PENALTY ELSE 0)
        s6 == s5 + (IF ageHours # Null /\ ageHours > SCAM_OLD_HOURS
                       /\ s5 < SCAM_OLD_BELOW
                    THEN SCAM_OLD_BONUS ELSE 0)
    IN  Clamp100(s6)

\* the riskSummary of the revision; part_010 returns a score without a level
riskSummaryOf(im, m, t, d) ==
    CASE im = "part_007" -> buildRiskSummary(m, t)
      [] im = "part_010" ->
           Risk("none", scamScore(m.hasMintAuthority, m.hasFreezeAuthority, t,
                                  d.liquidityUsd, d.ageHours))
      [] im = "part_003" ->
           riskModel(m.hasMintAuthority, m.hasFreezeAuthority, t, RISK_LOW_PCT_P003)
      [] OTHER ->
           riskModel(m.hasMintAuthority, m.hasFreezeAuthority, t, RISK_LOW_PCT)

\* the keys of STABLECOIN_WHITELIST the model distinguishes; the table of
\* part_004 spells the USDC key without its last character, so that the
\* USDC mint is not a key of it
STABLECOIN_WHITELIST(im) ==
    CASE im = "part_004" -> {"USDT"}
      [] im \in {"part_003", "check_v4"} -> {"USDC", "USDT"}
      [] OTHER -> {}

STABLE_SCORE == 95

\* the override without the test of the whitelist
stablecoinOverrideAny(im, mintAddr, r) == Risk("low", STABLE_SCORE)

\* if (STABLECOIN_WHITELIST[mint]) { riskSummary.level = "low";
\* riskSummary.score = 95 }
stablecoinOverride(im, mintAddr, r) ==
    IF mintAddr \in STABLECOIN_WHITELIST(im) THEN Risk("low", STABLE_SCORE) ELSE r

\* part_010: riskBlurb is chosen by the ranges of scamScore
BLURB_LOW_SCORE == 80
BLURB_MODERATE_SCORE == 60
BLURB_HIGH_SCORE == 40

\* the blurb the risk model writes. The tiered revisions assign one fixed
\* text in the branch that sets the level, named here after that level.
blurbOf(im, r) ==
    IF im = "part_010"
    THEN IF r.score >= BLURB_LOW_SCORE THEN "low rug risk"
         ELSE IF r.score >= BLURB_MODERATE_SCORE THEN "moderate risk"
         ELSE IF r.score >= BLURB_HIGH_SCORE THEN "high risk"
         ELSE "severe risk"
    ELSE r.level

\* the override of the blurb without the test of the whitelist
stablecoinBlurbAny(im, mintAddr, b) == "whitelisted stablecoin"

\* if (STABLECOIN_WHITELIST[mint]) { riskSummary.blurb = "This is a
\* whitelisted centralized stablecoin on Solana. ..." }
stablecoinBlurb(im, mintAddr, b) ==
    IF mintAddr \in STABLECOIN_WHITELIST(im) THEN "whitelisted stablecoin" ELSE b
-----------------------------------------------------------------------------
(* The upstream reads *)

\* the top-level reads: the mint account, the asset metadata, the largest
\* token accounts, the DEX metrics and the holder count
Reads == {"mint", "asset", "largest", "dex", "holders"}

\* the reads the revision awaits together in its Promise.all; the last
\* handler of api/check.js takes the mint bytes from the asset read and
\* awaits the DEX metrics later
Issued(im) ==
    CASE im \in {"part_004", "part_003"} -> Reads
      [] im = "check_v4" -> {"asset", "largest"}
      [] OTHER -> {"mint", "asset", "largest", "dex"}

\* the reads of Issued(im) that are not wrapped in a catch: their rejection
\* rejects the Promise.all
Unwrapped(im) ==
    CASE im \in {"part_004", "part_005"} -> {"mint"}
      [] im \in {"part_003", "part_006", "check_v1"} -> {"mint", "asset", "largest"}
      [] im = "part_010" -> {"mint", "largest", "dex"}
      [] im = "part_007" -> {"mint", "largest"}
      [] OTHER -> {}

ServerError(msg) == [status |-> 500, kind |-> "error", error |-> msg]

\* the revisions whose handler tests the method of the request
ChecksMethod(im) == im # "part_010"

\* the revisions whose handler tests the API key before it reads
ChecksKey(im) == im \in {"part_004", "part_003", "part_005", "part_006", "check_v1"}

\* the revisions whose RPC helper throws before its fetch when the key is
\* unset; the helper of part_010 fetches with the key it has
GuardsKey(im) == im # "part_010"

\* the checks at the head of the handler: the status of the early answer, or
\* 200 when the request goes on to the reads
validate(im, m, mintAddr, key) ==
    IF ChecksMethod(im) /\ m # "GET" THEN 405
    ELSE IF mintAddr = "" THEN 400
    ELSE IF ChecksKey(im) /\ ~key THEN 500
    ELSE 200

\* whether issuing the read r starts a network call: the DEX read needs no
\* key; an RPC read with the key unset is stopped by the helper that guards
\* the key
Started(im, r, key) == key \/ r = "dex" \/ ~GuardsKey(im)

\* a read that is attempted again after it failed, until two attempts
settleReadRetry(status, n, failed) ==
    IF failed /\ n < 2 THEN <<"pending", n + 1>>
    ELSE <<IF failed THEN "failed" ELSE "ok", n>>

\* a read settles: it is not issued again, whether it failed or not
settleRead(status, n, failed) == <<IF failed THEN "failed" ELSE "ok", n>>

\* if (!accountInfo?.value) return res.status(404).json({ error: ... });
\* part_007 hands the account to parseMintAccount without the test, and
\* part_010 and the last handler of api/check.js throw instead
answersNotFound(im, found) ==
    ~found /\ im \in {"part_004", "part_003", "part_005", "part_006", "check_v1"}

NotFound == [status |-> 404, kind |-> "not_found", error |-> "Mint account not found"]

\* last handler of api/check.js, fetchDexStats: x ? Number(x) : null turns a
\* zero liquidity or volume into null
fetchDexStats(d) ==
    [d EXCEPT !.liquidityUsd = IF @ = 0 THEN Null ELSE @,
              !.volume24Usd = IF @ = 0 THEN Null ELSE @]

\* res.status(200).json(payload) stringifies the payload; the holder rows
\* of part_005 carry amountBN, a BigInt, and JSON.stringify throws on it
payloadSerializable(im, nonLp, lp) ==
    ~(im = "part_005" /\ (Len(nonLp) > 0 \/ lp # NoHolder))

-----------------------------------------------------------------------------
(* Inputs *)

MaxHolders == 3

ByteVals == {0, 1, 255}
ShortLens == {0, 3, 4, 40, 44, 46, 49, 50, 81}
PatchPos == {0, 3, 4, 35, 36, 39, 40, 43, 44, 45, 46, 47, 48, 49, 50, 51, 81}
PairPos == {0, 3, 36, 43, 46, 48, 49, 50}

Fill(len, b) == [i \in 1..len |-> b]
Patch(bytes, pos, v) == [bytes EXCEPT ![pos + 1] = v]

Payloads ==
    {Fill(len, b) : len \in ShortLens \cup {MINT_LEN + 1}, b \in {0, 255}}
    \cup {Patch(Fill(MINT_LEN, b), p, v) : b \in {0, 255}, p \in PatchPos, v \in ByteVals}
    \cup {Patch(Patch(Fill(MINT_LEN, 0), p, v), q, v) :
            p \in PairPos, q \in PairPos, v \in {1, 255}}

\* an 82-byte mint account with no authority and the supply
\* b0 + 256 * b1 + 2^56 * b7
SupplyPayload(b0, b1, b7) ==
    Patch(Patch(Patch(Fill(MINT_LEN, 0), OFF_SUPPLY, b0), OFF_SUPPLY + 1, b1),
          OFF_SUPPLY + 7, b7)

Supply0 == SupplyPayload(0, 0, 0)
Supply3 == SupplyPayload(3, 0, 0)
Supply1000 == SupplyPayload(232, 3, 0)
SupplyHuge == SupplyPayload(0, 0, 1)

\* Supply1000 with the mint authority option m and the freeze authority
\* option f, at the offsets of the SPL layout
AuthPayload(m, f) == Patch(Patch(Supply1000, OFF_MINT_AUTH, m), OFF_FREEZE, f)

Entry(a, amt, ui) == [address |-> a, amount |-> amt, uiAmount |-> ui]

\* lists of at most n entries; entry i has address i and its amount and
\* uiAmount from a pair of opts
ListsOf(opts, max) ==
    UNION {
      { [i \in 1..n |-> Entry(i, f[i][1], f[i][2])] : f \in [1..n -> opts] } :
      n \in 0..max }

\* the same list with the second entry carrying the address of the first
DupFirst(l) == IF Len(l) < 2 THEN l ELSE [l EXCEPT ![2].address = l[1].address]

\* the mints of the model have 0 decimals: uiAmount is the amount, or null
ArithLists == ListsOf({<<a, a>> : a \in {1, 2, 600}}, MaxHolders)
LpLists == LET ls == ListsOf({<<a, a>> : a \in {10, 90, 110, 400}} \cup {<<400, Null>>},
                             MaxHolders - 1)
           IN  ls \cup {DupFirst(l) : l \in ls}
LongLists == {[i \in 1..(TOP_N + 1) |-> Entry(i, a, a)] : a \in {1, 90}}
FewLists == {<< >>, <<Entry(1, 400, 400), Entry(2, 10, 10)>>}
RiskLists == ListsOf({<<a, a>> : a \in {100, 220, 300, 390}}, 2) \ {<< >>}

Dex(r, liq, vol, tx, age) ==
    [poolMintReserve |-> r, liquidityUsd |-> liq, volume24Usd |-> vol,
     txCount24 |-> tx, ageHours |-> age]

DexNone == Dex(Null, Null, Null, Null, Null)
ReserveStats == {Dex(r, Null, Null, Null, Null) : r \in {Null, 0, 100}}
LiqStats == {Dex(100, liq, vol, tx, age) :
                liq \in {Null, 0, 100}, vol \in {Null, 0, 50, 2500, 3100, 10100},
                tx \in {Null, 0, 10, 49, 50, 149, 150}, age \in {Null, 3, 48}}
RiskStats == {Dex(Null, liq, Null, Null, age) :
                liq \in {Null, 100, 10000}, age \in {Null, 3, 48, 2400}}

-----------------------------------------------------------------------------
(* The handler *)

\* the steps a revision goes through after parseMintAccount
HasLP(im) == im # "part_006"
HasTruth(im) == im \in {"part_004", "part_003", "check_v4"}

\* a GET request for a mint that is no stablecoin, with the API key set, an
\* account behind the mint and no failing read
PlainRequest ==
    /\ mint = "other" /\ method = "GET" /\ apiKey = TRUE
    /\ accountFound = TRUE /\ flaky = {}

Init ==
    /\ impl \in Impls
    /\ \/ /\ mintData \in Payloads /\ largest = <<Entry(1, 400, 400), Entry(2, 10, 10)>> /\ dexStats = DexNone
          /\ PlainRequest
       \/ /\ mintData \in {Supply0, Supply3, SupplyHuge}
          /\ largest \in ArithLists \cup LongLists
          /\ dexStats = DexNone
          /\ PlainRequest
       \/ /\ mintData = Supply1000 /\ largest \in LpLists /\ dexStats \in ReserveStats
          /\ PlainRequest
       \/ /\ mintData = Supply1000 /\ largest \in FewLists /\ dexStats \in LiqStats
          /\ PlainRequest
       \/ /\ mintData \in {AuthPayload(m, f) : m \in {0, 1}, f \in {0, 1}}
          /\ largest \in RiskLists /\ dexStats \in RiskStats
          /\ PlainRequest
       \/ /\ mintData \in {AuthPayload(0, 0), AuthPayload(1, 1)}
          /\ largest \in {<<Entry(1, 100, 100)>>, <<Entry(1, 390, 390), Entry(2, 390, 390)>>}
          /\ dexStats \in {DexNone, Dex(Null, 100, Null, Null, 3)}
          /\ mint \in {"USDC", "USDT"} /\ flaky = {}
          /\ method = "GET" /\ apiKey = TRUE /\ accountFound = TRUE
       \/ /\ mintData = Supply1000 /\ largest = <<Entry(1, 400, 400), Entry(2, 10, 10)>>
          /\ dexStats = Dex(100, 100, 50, 50, 48)
          /\ \/ /\ mint = "other" /\ method = "GET" /\ apiKey = TRUE
                /\ accountFound \in BOOLEAN /\ flaky \in SUBSET Reads
             \/ /\ mint \in {"", "other"} /\ method \in {"GET", "POST"}
                /\ apiKey \in BOOLEAN /\ accountFound = TRUE /\ flaky = {}
    /\ pc = "validate"
    /\ reads = [r \in Reads |-> "idle"]
    /\ attempts = [r \in Reads |-> 0]
    /\ sent = 0
    /\ parsedMint = NoMint
    /\ allHolders = << >>
    /\ lpHolder = NoHolder
    /\ nonLpHolders = << >>
    /\ top10PctExcludingLP = Null
    /\ sampleCluster = NoCluster
    /\ insiderSummary = NoInsiders
    /\ riskSummary = NoRisk
    /\ riskBlurb = "none"
    /\ liquidityTruth = NoTruth
    /\ response = NoResponse

\* the head of the handler: the early answers 405, 400 and 500, then the
\* calls of the Promise.all are made. Every call of the array is made before
\* the await; one that the key guard of the RPC helper stops starts no
\* network call and rejects.
Validate ==
    /\ pc = "validate"
    /\ LET status == validate(impl, method, mint, apiKey)
       IN  IF status # 200
           THEN /\ pc' = "done"
                /\ response' = [status |-> status, kind |-> "error", error |-> "invalid request"]
                /\ sent' = sent + 1
                /\ UNCHANGED <<reads, attempts>>
           ELSE /\ pc' = "fetch"
                /\ reads' = [r \in Reads |-> IF r \in Issued(impl) THEN "pending" ELSE "idle"]
                /\ attempts' = [r \in Reads |->
                                  IF r \in Issued(impl) /\ Started(impl, r, apiKey)
                                  THEN 1 ELSE 0]
                /\ UNCHANGED <<response, sent>>
    /\ UNCHANGED <<inputVars, fetchedVars, derivedVars>>

\* the outcome of the read r: it fails when the upstream fails, when it is
\* an RPC read and the key is unset, and, in part_010, when fetchMintAccount
\* finds no account value and throws
Fails(r) ==
    \/ r \in flaky
    \/ ~apiKey /\ r # "dex"
    \/ impl = "part_010" /\ r = "mint" /\ ~accountFound

\* one read of the Promise.all settles. A read that fails: wrapped, it
\* resolves to its fallback; unwrapped, it rejects the Promise.all, the
\* await throws and the catch of the handler answers 500.
Settle(r) ==
    /\ pc = "fetch"
    /\ reads[r] = "pending"
    /\ LET s == settleRead(reads[r], attempts[r], Fails(r))
       IN  /\ reads' = [reads EXCEPT ![r] = s[1]]
           /\ attempts' = [attempts EXCEPT ![r] = s[2]]
           /\ IF s[1] = "failed" /\ r \in Unwrapped(impl)
              THEN /\ pc' = "done"
                   /\ response' = ServerError("read failed")
                   /\ sent' = sent + 1
              ELSE UNCHANGED <<pc, response, sent>>
    /\ UNCHANGED <<inputVars, fetchedVars, derivedVars>>

\* every read has settled and the await returns: a wrapped read that failed
\* left its fallback (an empty list, the all-null metrics, null). The last
\* handler of api/check.js throws when the asset is null; the handlers that
\* test the account value answer 404 when there is none.
Join ==
    /\ pc = "fetch"
    /\ \A r \in Issued(impl) : reads[r] \in {"ok", "failed"}
    /\ IF impl = "check_v4" /\ (reads["asset"] = "failed" \/ ~accountFound)
       THEN /\ pc' = "done"
            /\ response' = ServerError("Mint not found via Helius getAsset")
            /\ sent' = sent + 1
            /\ UNCHANGED fetchedVars
       ELSE IF answersNotFound(impl, accountFound)
       THEN /\ pc' = "done"
            /\ response' = NotFound
            /\ sent' = sent + 1
            /\ UNCHANGED fetchedVars
       ELSE /\ pc' = "parse"
            /\ largest' = IF reads["largest"] = "failed" THEN << >> ELSE largest
            /\ dexStats' = IF reads["dex"] = "failed" THEN DexNone ELSE dexStats
            /\ UNCHANGED <<response, sent>>
    /\ UNCHANGED <<inputVars, reads, attempts, derivedVars>>

\* const parsedMint = parseMintAccount(dataBase64); a throw is caught by
\* the handler's catch and answered 500. part_007 returns null instead,
\* also when the account has no value, and goes on.
ParseMint ==
    /\ pc = "parse"
    /\ LET r == IF accountFound THEN parseMintAccount(impl, mintData)
                ELSE ParseError("null")
       IN  /\ parsedMint' = r
           /\ IF r.ok \/ impl = "part_007"
              THEN /\ pc' = "holders"
                   /\ UNCHANGED <<response, sent>>
              ELSE /\ pc' = "done"
                   /\ response' = ServerError(r.error)
                   /\ sent' = sent + 1
    /\ UNCHANGED <<inputVars, fetchedVars, reads, attempts, allHolders,
                   lpHolder, nonLpHolders, top10PctExcludingLP, sampleCluster,
                   insiderSummary, riskSummary, riskBlurb, liquidityTruth>>

\* part_007: buildHolderSummary returns the empty summary when the mint
\* could not be read, no account was reported or the supply is not positive
EmptySummaryP007 ==
    \/ ~parsedMint.ok
    \/ Len(largest) = 0
    \/ IsZeroBig(BigIntOfString(parsedMint.supply))

\* allHolders = largestAccounts.map(...)
BuildHolders ==
    /\ pc = "holders"
    /\ allHolders' =
          IF impl = "part_007" /\ EmptySummaryP007 THEN << >>
          ELSE mapHolders(impl, largest, supplyBN(impl, parsedMint.supply))
    /\ pc' = IF HasLP(impl) THEN "lp" ELSE "summary"
    /\ UNCHANGED <<inputVars, fetchedVars, reads, attempts, sent, response,
                   parsedMint, lpHolder, nonLpHolders, top10PctExcludingLP,
                   sampleCluster, insiderSummary, riskSummary, riskBlurb,
                   liquidityTruth>>

\* detection of the LP holder, the sort of allHolders and the fallback, in
\* the order of the revision
IdentifyLP ==
    /\ pc = "lp"
    /\ LET r == identifyLP(impl, allHolders, dexStats.poolMintReserve)
       IN  allHolders' = r.all /\ lpHolder' = r.lp
    /\ pc' = "partition"
    /\ UNCHANGED <<inputVars, fetchedVars, reads, attempts, sent, response,
                   parsedMint, nonLpHolders, top10PctExcludingLP,
                   sampleCluster, insiderSummary, riskSummary, riskBlurb,
                   liquidityTruth>>

\* nonLpHolders = lpHolder ? allHolders.filter(...) : allHolders
Partition ==
    /\ pc = "partition"
    /\ nonLpHolders' = nonLpOf(impl, allHolders, lpHolder)
    /\ pc' = "summary"
    /\ UNCHANGED <<inputVars, fetchedVars, reads, attempts, sent, response,
                   parsedMint, allHolders, lpHolder, top10PctExcludingLP,
                   sampleCluster, insiderSummary, riskSummary, riskBlurb,
                   liquidityTruth>>

\* the concentration of the ten largest holders and the insider snapshot
Summarise ==
    /\ pc = "summary"
    /\ top10PctExcludingLP' =
          top10PctExcludingLPOf(impl, parsedMint, allHolders, nonLpHolders, lpHolder)
    /\ sampleCluster' =
          IF impl = "part_003" THEN sampleClusterOf(nonLpHolders) ELSE NoCluster
    /\ insiderSummary' = insiderSummaryOf(impl, nonLpHolders)
    /\ pc' = "risk"
    /\ UNCHANGED <<inputVars, fetchedVars, reads, attempts, sent, response,
                   parsedMint, allHolders, lpHolder, nonLpHolders,
                   riskSummary, riskBlurb, liquidityTruth>>

\* const riskSummary = { level, score, blurb }; part_004 and part_003 go on
\* to the liquidity truth index, the last handler of api/check.js to the
\* DEX read, the others to the response
RiskModel ==
    /\ pc = "risk"
    /\ LET r == riskSummaryOf(impl, parsedMint, top10PctExcludingLP, dexStats)
       IN  riskSummary' = r /\ riskBlurb' = blurbOf(impl, r)
    /\ pc' = CASE impl \in {"part_004", "part_003"} -> "truth"
               [] impl = "check_v4" -> "dex"
               [] OTHER -> "respond"
    /\ UNCHANGED <<inputVars, fetchedVars, reads, attempts, sent, response,
                   parsedMint, allHolders, lpHolder, nonLpHolders,
                   top10PctExcludingLP, sampleCluster, insiderSummary,
                   liquidityTruth>>

\* last handler of api/check.js: const dexStats = await fetchDexStats(mint),
\* which throws when DexScreener does not answer 200
FetchDexStats ==
    /\ pc = "dex"
    /\ attempts' = [attempts EXCEPT !["dex"] = @ + 1]
    /\ reads' = [reads EXCEPT !["dex"] = IF "dex" \in flaky THEN "failed" ELSE "ok"]
    /\ IF "dex" \in flaky
       THEN /\ pc' = "done"
            /\ response' = ServerError("DexScreener error")
            /\ sent' = sent + 1
            /\ UNCHANGED dexStats
       ELSE /\ pc' = "truth"
            /\ dexStats' = fetchDexStats(dexStats)
            /\ UNCHANGED <<response, sent>>
    /\ UNCHANGED <<inputVars, largest, derivedVars>>

LiquidityTruth ==
    /\ pc = "truth"
    /\ liquidityTruth' = liquidityTruthOf(impl, dexStats)
    /\ pc' = "stable"
    /\ UNCHANGED <<inputVars, fetchedVars, reads, attempts, sent, response,
                   parsedMint, allHolders, lpHolder, nonLpHolders,
                   top10PctExcludingLP, sampleCluster, insiderSummary,
                   riskSummary, riskBlurb>>

\* the stablecoin special handling, the last step before the response
StablecoinOverride ==
    /\ pc = "stable"
    /\ riskSummary' = stablecoinOverride(impl, mint, riskSummary)
    /\ riskBlurb' = stablecoinBlurb(impl, mint, riskBlurb)
    /\ pc' = "respond"
    /\ UNCHANGED <<inputVars, fetchedVars, reads, attempts, sent, response,
                   parsedMint, allHolders, lpHolder, nonLpHolders,
                   top10PctExcludingLP, sampleCluster, insiderSummary,
                   liquidityTruth>>

\* return res.status(200).json({...}); a throw of the serialization is
\* caught by the handler's catch, which answers 500
Respond ==
    /\ pc = "respond"
    /\ response' =
          IF payloadSerializable(impl, Take(nonLpHolders, TOP_N), lpHolder)
          THEN [status |-> 200, kind |-> "assessment", error |-> "none"]
          ELSE ServerError("Do not know how to serialize a BigInt")
    /\ sent' = sent + 1
    /\ pc' = "done"
    /\ UNCHANGED <<inputVars, fetchedVars, reads, attempts, derivedVars>>

Next ==
    \/ Validate
    \/ \E r \in Reads : Settle(r)
    \/ Join
    \/ ParseMint
    \/ BuildHolders
    \/ IdentifyLP
    \/ Partition
    \/ Summarise
    \/ RiskModel
    \/ FetchDexStats
    \/ LiquidityTruth
    \/ StablecoinOverride
    \/ Respond

Spec == Init /\ [][Next]_vars

-----------------------------------------------------------------------------
(* Properties *)

Parsed == pc \notin {"fetch", "parse"} /\ parsedMint.ok
HoldersBuilt == pc \notin {"fetch", "parse", "holders"} /\ parsedMint.ok
AfterLP == {"partition", "summary", "risk", "dex", "truth", "stable", "respond", "done"}
LPIdentified == pc \in AfterLP /\ parsedMint.ok /\ HasLP(impl)
Partitioned == pc \in AfterLP \ {"partition"} /\ parsedMint.ok /\ HasLP(impl)

\* the eight bytes at [36..44) of the payload, least significant first
SupplyBytes == [i \in 1..8 |-> ByteAt(mintData, OFF_SUPPLY + i - 1)]

IsDecimalString(s) ==
    /\ Len(s) >= 1
    /\ \A i \in 1..Len(s) : s[i] \in 0..9
    /\ (Len(s) > 1 => s[1] # 0)

RECURSIVE SumAmountFrom(_, _)
SumAmountFrom(es, i) == IF i > Len(es) THEN 0 ELSE es[i].amount + SumAmountFrom(es, i + 1)
SumAmount(es) == SumAmountFrom(es, 1)

\* C1: the supply a revision returns is a canonical decimal string whose
\* value is byte[36] + 256 * byte[37] + ... + 256^7 * byte[43], that is
\* high * 2^32 + low of the two little-endian u32 halves, for every payload,
\* also above 2^53.
C1_SupplyExact ==
    Parsed =>
        /\ IsDecimalString(parsedMint.supply)
        /\ BigIntOfString(parsedMint.supply) = SupplyBytes

\* a supply of 2^64 - 1 has been decoded
C1_Witness ==
    /\ Parsed
    /\ impl \in {"part_004", "part_010"}
    /\ \A i \in 1..8 : SupplyBytes[i] = 255
    /\ parsedMint.supply = <<1,8,4,4,6,7,4,4,0,7,3,7,0,9,5,5,1,6,1,5>>

\* C2: no mint record is produced from a payload of fewer than 82 bytes;
\* the decoding fails instead (part_003 and part_004).
C2_ShortPayloadFails ==
    (pc \notin {"validate", "fetch", "parse"} /\ impl \in {"part_003", "part_004"} /\ Len(mintData) < MINT_LEN)
        => (~parsedMint.ok /\ pc = "done" /\ response.kind = "error")

\* C3: for an 82-byte payload, hasMintAuthority is whether the u32 at [0..4) is non-zero and
\* hasFreezeAuthority whether the u32 at [46..50) is non-zero, and no byte
\* outside those windows changes the flag (part_003 and part_007).
C3_AuthorityFlags ==
    (Parsed /\ impl \in {"part_003", "part_007"} /\ Len(mintData) = MINT_LEN) =>
        /\ parsedMint.hasMintAuthority = ~IsZeroBig(U32LE(mintData, OFF_MINT_AUTH))
        /\ parsedMint.hasFreezeAuthority = ~IsZeroBig(U32LE(mintData, OFF_FREEZE))
        /\ \A p \in PatchPos, v \in ByteVals :
              LET other == parseMintAccount(impl, Patch(mintData, p, v))
              IN  (p < Len(mintData) /\ other.ok) =>
                    /\ p \notin OFF_MINT_AUTH..(OFF_MINT_AUTH + 3)
                          => other.hasMintAuthority = parsedMint.hasMintAuthority
                    /\ p \notin OFF_FREEZE..(OFF_FREEZE + 3)
                          => other.hasFreezeAuthority = parsedMint.hasFreezeAuthority

\* C4: with a positive supply S, every holder's percentage, in basis
\* points, is floor(rawAmount * 10000 / S): the q with
\* q * S <= rawAmount * 10000 < (q + 1) * S. (A supply of 2^24 or more
\* exceeds every rawAmount * 10000 of the model, and the floor is 0.)
C4_PercentIsFloor ==
    (HoldersBuilt /\ ~IsZeroBig(SupplyBytes)) =>
        \A k \in 1..Len(allHolders) :
            LET h == allHolders[k]
                a == largest[h.idx].amount
                S == SmallInt(SupplyBytes)
            IN  IF FitsSmall(SupplyBytes)
                THEN h.pct * S <= a * 10000 /\ a * 10000 < (h.pct + 1) * S
                ELSE h.pct = 0

\* a holder of 2 out of a supply of 3 got 66.66
C4_Witness ==
    /\ HoldersBuilt
    /\ impl \in {"part_004", "part_010"}
    /\ mintData = Supply3
    /\ \E k \in 1..Len(allHolders) :
          largest[allHolders[k].idx].amount = 2 /\ allHolders[k].pct = 6666

\* C5: with a supply of zero every holder's percentage is 0, whatever its
\* rawAmount, and the request is answered with an assessment.
C5_ZeroSupply ==
    (HoldersBuilt /\ IsZeroBig(SupplyBytes)) =>
        /\ \A k \in 1..Len(allHolders) : allHolders[k].pct = 0
        /\ (pc = "done" => response.kind = "assessment")

\* C6, as claimed: with a positive supply the percentages of all holders
\* sum to at most 100.00 plus 0.01 per holder, for all holder lists.
C6_SumBoundedAllLists ==
    (HoldersBuilt /\ ~IsZeroBig(SupplyBytes)) =>
        SumPct(allHolders) <= 10000 + Len(allHolders)

\* C6, amended: with a positive supply and rawAmounts that sum to at most
\* the supply, the percentages of all holders sum to at most 100.00 plus
\* 0.01 per holder.
C6_SumBounded ==
    (/\ HoldersBuilt
     /\ ~IsZeroBig(SupplyBytes)
     /\ (FitsSmall(SupplyBytes) => SumAmount(largest) <= SmallInt(SupplyBytes)))
        => SumPct(allHolders) <= 10000 + Len(allHolders)

\* three holders of 1 out of a supply of 3 sum to 99.99
C6_Witness ==
    /\ HoldersBuilt
    /\ impl \in {"part_004", "part_003"}
    /\ mintData = Supply3
    /\ Len(allHolders) = 3
    /\ SumAmount(largest) = 3
    /\ SumPct(allHolders) = 9999

\* positions of allHolders whose positive uiAmount is within 20% of the
\* reserve r, and the distance of a holder to r
Within20(hs, r) ==
    {i \in 1..Len(hs) : hs[i].uiAmount # Null /\ hs[i].uiAmount > 0
                        /\ 100 * Abs(hs[i].uiAmount - r) < 20 * r}
Dist(h, r) == Abs(h.uiAmount - r)

TruthBuilt == HasTruth(impl) /\ liquidityTruth # NoTruth

\* C7: with a positive pool reserve, when some holder with a positive
\* uiAmount is within 20% of it, the LP holder is such a holder at the
\* smallest relative distance, and no holder at the same distance has a
\* larger percentage (part_004 and part_010).
C7_ClosestReserveMatch ==
    (/\ LPIdentified
     /\ impl \in {"part_004", "part_010"}
     /\ ReservePresent(dexStats.poolMintReserve)
     /\ Within20(allHolders, dexStats.poolMintReserve) # {})
        => LET r == dexStats.poolMintReserve
               c == Within20(allHolders, r)
           IN  \E i \in c :
                  /\ allHolders[i] = lpHolder
                  /\ \A j \in c :
                        /\ Dist(allHolders[i], r) <= Dist(allHolders[j], r)
                        /\ Dist(allHolders[j], r) = Dist(allHolders[i], r)
                              => allHolders[j].pct <= allHolders[i].pct

\* C8: when no holder matches the reserve, a holder is the LP holder only
\* if it is the largest one and its percentage is at least 40
\* (part_004 and part_003).
C8_DominanceFallback ==
    (/\ LPIdentified
     /\ impl \in {"part_004", "part_003"}
     /\ \/ ~ReservePresent(dexStats.poolMintReserve)
        \/ Within20(allHolders, dexStats.poolMintReserve) = {}
     /\ lpHolder # NoHolder)
        => /\ lpHolder.pct >= 4000
           /\ \A k \in 1..Len(allHolders) : allHolders[k].pct <= lpHolder.pct

C10_LiquidityTier ==
    (/\ TruthBuilt
     /\ impl \in {"part_004", "check_v4"}
     /\ Present(dexStats.liquidityUsd)
     /\ Present(dexStats.volume24Usd)
     /\ Present(dexStats.txCount24))
        => LET liq == dexStats.liquidityUsd
               vol == dexStats.volume24Usd
               tx == dexStats.txCount24
           IN  liquidityTruth.level =
                  IF vol > 100 * liq /\ tx < 50 THEN "high"
                  ELSE IF vol > 30 * liq /\ tx < 150 THEN "medium"
                  ELSE "low"

\* C11: in the revisions with a liquidity truth index (part_004 and the
\* last handler of api/check.js), when liquidityUsd, volume24hUsd or
\* txCount24h is missing or not positive, the tier is "unknown" and never
\* low, medium or high.
C11_UnknownWhenMissing ==
    (TruthBuilt /\ impl \in {"part_004", "check_v4"}
       /\ ~(Present(dexStats.liquidityUsd) /\ Present(dexStats.volume24Usd)
             /\ Present(dexStats.txCount24)))
    => liquidityTruth.level = "unknown"

\* the mints of the model that every allow-list of the cited revisions is
\* meant to hold
AllowListed == {"USDC", "USDT"}

Assessed == pc = "done" /\ response.kind = "assessment"

\* C12: for an allow-listed stablecoin mint the returned level is "low" and
\* the returned score is 95, whatever the authorities, the concentration,
\* the liquidity and the age (part_004, part_010 and part_003).
C12_StablecoinOverride ==
    (Assessed /\ impl \in {"part_004", "part_010", "part_003"} /\ mint \in AllowListed)
    => riskSummary = Risk("low", STABLE_SCORE)

\* the score of the revision when the authorities, the concentration, the
\* liquidity and the age of the present request are replaced
ScoreWith(hasMint, hasFreeze, t, liq, age) ==
    riskSummaryOf(impl,
                  [parsedMint EXCEPT !.hasMintAuthority = hasMint,
                                     !.hasFreezeAuthority = hasFreeze],
                  t,
                  [dexStats EXCEPT !.liquidityUsd = liq, !.ageHours = age]).score

PctSteps == {1000, 3000, 3900, 6000, 7800}
LiqSteps == {100, 10000}
AgeSteps == {3, 48, 2400}

\* C13: the score never decreases when one axis improves and the others
\* are held: no mint authority instead of one, no freeze authority instead
\* of one, a lower concentration of the ten largest non-LP holders, a
\* higher liquidity, an older token (part_010, part_004 and part_007).
C13_Monotonic ==
    (riskSummary # NoRisk /\ impl \in {"part_010", "part_004", "part_007"}
       /\ parsedMint.ok /\ top10PctExcludingLP # Null)
    => LET m == parsedMint.hasMintAuthority
           f == parsedMint.hasFreezeAuthority
           t == top10PctExcludingLP
           l == dexStats.liquidityUsd
           a == dexStats.ageHours
           base == ScoreWith(m, f, t, l, a)
       IN  /\ ScoreWith(FALSE, f, t, l, a) >= base
           /\ ScoreWith(m, FALSE, t, l, a) >= base
           /\ \A t2 \in PctSteps : t2 <= t => ScoreWith(m, f, t2, l, a) >= base
           /\ \A l2 \in LiqSteps : (l # Null /\ l2 >= l) => ScoreWith(m, f, t, l2, a) >= base
           /\ \A a2 \in AgeSteps : (a # Null /\ a2 >= a) => ScoreWith(m, f, t, l, a2) >= base

\* the axis rules of the weighted score
MintScore(hasMint, hasFreeze) ==
    IF hasMint THEN 35 ELSE IF hasFreeze THEN 75 ELSE 95

RECURSIVE InsidersPctFrom(_, _)
InsidersPctFrom(hs, i) ==
    IF i > Len(hs) THEN 0
    ELSE (IF hs[i].pct >= INSIDER_PCT THEN hs[i].pct ELSE 0) + InsidersPctFrom(hs, i + 1)

HolderScore(t, insiders) ==
    IF t = Null THEN 50
    ELSE IF t <= 2500 /\ insiders <= 3000 THEN 90
    ELSE IF t <= 4000 /\ insiders <= 4500 THEN 65
    ELSE 35

LiquidityScore(level) ==
    CASE level = "low" -> 90
      [] level = "medium" -> 60
      [] level = "high" -> 35
      [] OTHER -> 50

AgeScore(ageHours) ==
    IF ageHours = Null THEN 50
    ELSE IF ageHours < 6 THEN 30
    ELSE IF ageHours < 48 THEN 50
    ELSE IF ageHours < 336 THEN 70
    ELSE 85

\* round(m * 0.30 + h * 0.30 + l * 0.25 + a * 0.15), clamped to 0 .. 100
CompositeScore(m, h, l, a) == Clamp100((30 * m + 30 * h + 25 * l + 15 * a + 50) \div 100)

\* C14: for a mint that is not allow-listed the returned score is
\* round(mintScore * 0.30 + holderScore * 0.30 + liquidityScore * 0.25 +
\* ageScore * 0.15), an integer of 0 .. 100 (part_004 and part_010).
C14_WeightedScore ==
    (Assessed /\ impl \in {"part_004", "part_010"} /\ mint \notin AllowListed)
    => riskSummary.score =
          CompositeScore(MintScore(parsedMint.hasMintAuthority, parsedMint.hasFreezeAuthority),
                         HolderScore(top10PctExcludingLP, InsidersPctFrom(nonLpHolders, 1)),
                         LiquidityScore(liquidityTruth.level),
                         AgeScore(dexStats.ageHours))

\* the level and score the scoring rule of the revision gives to the
\* request
Scored == riskSummaryOf(impl, parsedMint, top10PctExcludingLP, dexStats)

\* C15: in part_004 and part_003 the stablecoin override is the last step
\* before the response and the only step that replaces the level and score
\* of the scoring rule: once computed, riskSummary changes only in the
\* override step, only for a mint of the whitelist and only to low / 95,
\* and an assessment for any other mint returns what the rule computed.
C15_OverrideLast ==
    /\ [][(impl \in {"part_004", "part_003"} /\ riskSummary # NoRisk
             /\ riskSummary' # riskSummary)
          => (/\ pc = "stable" /\ pc' = "respond"
              /\ liquidityTruth # NoTruth
              /\ mint \in STABLECOIN_WHITELIST(impl)
              /\ riskSummary' = Risk("low", STABLE_SCORE))]_vars
    /\ [](Assessed /\ impl \in {"part_004", "part_003"}
            => riskSummary = IF mint \in STABLECOIN_WHITELIST(impl)
                             THEN Risk("low", STABLE_SCORE) ELSE Scored)

\* an assessment of part_003 for a whitelisted mint whose scoring rule gave
\* high / 25 and whose returned summary is low / 95
C15_Witness ==
    /\ Assessed /\ impl = "part_003"
    /\ mint \in STABLECOIN_WHITELIST(impl)
    /\ Scored = Risk("high", SCORE_HIGH)
    /\ riskSummary = Risk("low", STABLE_SCORE)

\* a request that passes the checks at the head of every handler, for a
\* mint whose account exists
Servable == method = "GET" /\ mint # "" /\ apiKey /\ accountFound

\* the payload is a mint account every revision decodes
Decodable == parseMintAccount(impl, mintData).ok

\* C16: the failure of any of the top-level reads (mint bytes, largest
\* list, DEX metrics, metadata, holder count), in any combination and any
\* order of completion, never aborts the request: it ends with an
\* assessment (part_004, part_003 and part_010).
C16_ReadFailureDegrades ==
    (pc = "done" /\ impl \in {"part_004", "part_003", "part_010"} /\ Decodable
       /\ Servable)
    => response.kind = "assessment"

\* C17: the risk score is computed only after the LP partition and the
\* liquidity-authenticity classification: when riskSummary is set, the
\* holders are partitioned and the liquidity truth index is built (part_004
\* and part_003).
C17_ScoreAfterClassification ==
    (riskSummary # NoRisk /\ impl \in {"part_004", "part_003"})
    => (Partitioned /\ TruthBuilt)

DescendingByPct(hs) ==
    \A i, j \in 1..Len(hs) : i < j => hs[i].pct >= hs[j].pct

\* C18: allHolders, and nonLpHolders with it, are ordered by percentage of
\* supply, largest first, for every order of the input list and every
\* combination of rawAmount and uiAmount (part_004 and part_003).
C18_SortedByPct ==
    /\ (LPIdentified /\ impl \in {"part_004", "part_003"}) => DescendingByPct(allHolders)
    /\ (Partitioned /\ impl \in {"part_004", "part_003"}) => DescendingByPct(nonLpHolders)

\* C19: the sort is stable: holders of equal percentage keep the relative
\* order they had in the input list (part_003 and part_004).
C19_StableSort ==
    (LPIdentified /\ impl \in {"part_003", "part_004"})
    => \A i, j \in 1..Len(allHolders) :
          (i < j /\ allHolders[i].pct = allHolders[j].pct)
          => allHolders[i].idx < allHolders[j].idx

\* the wallets a reported cluster names
ClusterMembers(c) == {c.leader}

\* C20: a cluster is reported only for at least two distinct holders, and
\* its percentage is the sum of its members' percentages (part_003).
C20_ClusterHasTwoMembers ==
    (impl = "part_003" /\ sampleCluster # NoCluster)
    => /\ Cardinality(ClusterMembers(sampleCluster)) >= 2
       /\ sampleCluster.pctOfSupply =
             SumPct(SelectSeq(nonLpHolders,
                              LAMBDA h : h.address \in ClusterMembers(sampleCluster)))


\* C24: in the revisions with a liquidity truth index (part_004 and the
\* last handler of api/check.js), tradeToLiquidity and avgTradeUsd are
\* non-null exactly when liquidityUsd, volume24hUsd and txCount24h are all
\* present and the liquidity is positive; otherwise both are null.
C24_RatiosWhenPresent ==
    (TruthBuilt /\ impl \in {"part_004", "check_v4"})
    => LET derived == /\ dexStats.liquidityUsd # Null
                      /\ dexStats.volume24Usd # Null
                      /\ dexStats.txCount24 # Null
                      /\ dexStats.liquidityUsd > 0
       IN  /\ (liquidityTruth.tradeToLiquidity # NoRatio) <=> derived
           /\ (liquidityTruth.avgTradeUsd # NoRatio) <=> derived


\* C22: when the holder concentration is unknown (the largest-holder list
\* is empty or could not be fetched, or the supply is zero), the top-10
\* concentration is null and the risk model never answers level low from
\* it (part_003).
C22_UnknownNeverLow ==
    (pc \in {"truth", "stable", "respond", "done"} /\ riskSummary # NoRisk
       /\ impl = "part_003" /\ mint \notin STABLECOIN_WHITELIST(impl)
       /\ (Len(largest) = 0 \/ IsZeroBig(SupplyBytes)))
    => /\ top10PctExcludingLP = Null
       /\ riskSummary.level # "low"


\* C27: all mint decoders of the repository agree: for a payload of at
\* least 82 bytes the record the serving revision decoded is the record of
\* the DataView decoder, of the byte-shift decoder of part_001, of the
\* Buffer decoder of part_003 and of the decoder of part_007.
C27_DecodersAgree ==
    (Parsed /\ Len(mintData) >= MINT_LEN)
    => /\ parsedMint = ParseDataView(mintData)
       /\ parsedMint = ParseByteShift(mintData)
       /\ parsedMint = ParseChecked(mintData)
       /\ parsedMint = ParseTry(mintData)


\* the tier of the insider clusters as claimed, from the number of
\* clusters, the share of the largest and the combined share
ClaimedInsiderTier(count, largestPct, totalPct) ==
    IF count = 0 THEN "low"
    ELSE IF largestPct >= 2500 \/ totalPct >= 3500 THEN "high"
    ELSE IF largestPct >= 1000 THEN "medium"
    ELSE "low"

\* C21: the insider risk tier is low when there are no clusters; high when
\* the largest holds at least 25% of the supply or all together at least
\* 35%; otherwise medium when the largest holds at least 10%; otherwise low
\* (part_010 and part_004).
C21_InsiderTier ==
    (insiderSummary # NoInsiders /\ impl \in {"part_010", "part_004"})
    => insiderSummary.insiderRiskLevel =
          ClaimedInsiderTier(Len(insiderSummary.insidersAll),
                             MaxPctFrom(insiderSummary.insidersAll, 1),
                             insiderSummary.insidersTotalPct)


C25_PayloadSerializable ==
    (pc = "done" /\ impl \in {"part_005", "part_004"} /\ riskSummary # NoRisk)
    => response.kind = "assessment"


\* C26: within one request each external read (getAccountInfo, getAsset,
\* getTokenLargestAccounts, the holder count, the DEX metrics) is attempted
\* at most once; a read that failed is not attempted again (part_004).
C26_AtMostOnce ==
    impl = "part_004" => \A r \in Reads : attempts[r] <= 1

\* a request of part_004 that ended with an assessment although a read
\* failed, the failed read having been attempted once
C26_Witness ==
    /\ impl = "part_004"
    /\ Assessed
    /\ \E r \in Reads : reads[r] = "failed" /\ attempts[r] = 1


\* the statuses the claimed validation allows for the request
ClaimedRejections ==
    (IF method # "GET" THEN {405} ELSE {})
    \cup (IF mint = "" THEN {400} ELSE {})
    \cup (IF ~apiKey THEN {500} ELSE {})

\* C28: a request is validated before any external read is issued: a
\* request whose method is not GET is answered 405, one with a blank mint
\* 400 and one made while the API key is unset 500, and in each case no RPC
\* or DEX call has been started (part_004, part_003, part_010, part_007).
C28_ValidatedBeforeReads ==
    (pc # "validate" /\ impl \in {"part_004", "part_003", "part_010", "part_007"}
       /\ ClaimedRejections # {})
    => /\ pc = "done"
       /\ response.status \in ClaimedRejections
       /\ \A r \in Reads : attempts[r] = 0


\* C29: every request ends with exactly one response body, whatever reads
\* fail and in whatever order they settle: never two, and none only while
\* the handler is still running; and a mint-account lookup that reports no
\* account value is answered with the not-found response (part_004,
\* part_005, part_003).
C29_ExactlyOneResponse ==
    impl \in {"part_004", "part_005", "part_003"}
    => /\ sent <= 1
       /\ (pc = "done") <=> (sent = 1)
       /\ (pc = "done" /\ validate(impl, method, mint, apiKey) = 200
             /\ reads["mint"] = "ok" /\ ~accountFound)
          => response = NotFound


\* the blurb that goes with a level when the level alone selects it
BlurbOfLevel(level) == level

\* the blurb that goes with a pair of level and score: the override pair
\* carries the stablecoin rationale
BlurbOfPair(r) ==
    IF r = Risk("low", STABLE_SCORE) THEN "whitelisted stablecoin"
    ELSE BlurbOfLevel(r.level)

\* the pairs of level and score of a returned riskSummary
PairedConsistently ==
    /\ riskSummary \in {Risk("low", SCORE_LOW), Risk("medium", SCORE_MEDIUM),
                        Risk("high", SCORE_HIGH), Risk("low", STABLE_SCORE)}
    /\ (riskSummary = Risk("low", STABLE_SCORE)) <=> (mint \in STABLECOIN_WHITELIST(impl))

\* C30, as claimed: in every returned riskSummary low goes with 90, medium
\* with 65 and high with 25, the blurb is determined by the level, and the
\* pair (low, 95) occurs exactly for the mints of the stablecoin allow-list
\* (part_004).
C30_BlurbByLevel ==
    (Assessed /\ impl = "part_004")
    => PairedConsistently /\ riskBlurb = BlurbOfLevel(riskSummary.level)

\* C30, amended: the blurb is determined by the pair of level and score.
C30_BlurbByPair ==
    (Assessed /\ impl = "part_004")
    => PairedConsistently /\ riskBlurb = BlurbOfPair(riskSummary)

\* an assessment of part_004 for a whitelisted mint that the risk model had
\* scored high, returned as low / 95 with the stablecoin rationale
C30_Witness ==
    /\ Assessed /\ impl = "part_004"
    /\ Scored = Risk("high", SCORE_HIGH)
    /\ riskSummary = Risk("low", STABLE_SCORE)
    /\ riskBlurb = "whitelisted stablecoin"

=============================================================================
